---------------------------- MODULE Spec2Model ----------------------------
(***************************************************************************)
(* A model of src/extract.py: the decoder of the module container that is  *)
(* embedded in a Bun-compiled executable (parse_footer, extract_modules,   *)
(* strip_bytecode_prefix) and the part of main that writes the decoded     *)
(* modules beneath <output-dir>/<version>.                                 *)
(*                                                                         *)
(* Bytes are the integers 0..255, a bytes object is a sequence of them and *)
(* a str is a sequence of code points.  Python indexes from 0 and TLA+     *)
(* from 1: every offset below is a Python (0-based) offset, and the        *)
(* operators that index add the 1.                                         *)
(***************************************************************************)
EXTENDS Integers, Sequences, FiniteSets, TLC

VARIABLES section, text_only, pc, err, footer, chunk_size, num_modules,
          modules, next_mod, dirs, files, written

vars == <<section, text_only, pc, err, footer, chunk_size, num_modules,
          modules, next_mod, dirs, files, written>>

---------------------------------------------------------------------------
(* Literals of the source.                                                 *)

\* b"\n---- Bun! ----\n"
BUN_TRAILER == <<10,45,45,45,45,32,66,117,110,33,32,45,45,45,45,10>>

\* b"/$bunfs/root", the literal searched for in the path window
BUNFS_ROOT == <<47,36,98,117,110,102,115,47,114,111,111,116>>

\* ("/$bunfs/root/", "/$bunfs/root"), the prefixes removed, in this order
PREFIXES == << BUNFS_ROOT \o <<47>>, BUNFS_ROOT >>

\* "/\n\t\x00", the characters str.strip removes at both ends
STRIP_CHARS == {47, 10, 9, 0}

\* b"(function(exports, require, module, __filename, __dirname) {"
WRAPPER == <<40,102,117,110,99,116,105,111,110,40,101,120,112,111,114,116,
             115,44,32,114,101,113,117,105,114,101,44,32,109,111,100,117,
             108,101,44,32,95,95,102,105,108,101,110,97,109,101,44,32,95,
             95,100,105,114,110,97,109,101,41,32,123>>

\* ".js"
JS_SUFFIX == <<46,106,115>>

\* "module_"
MODULE_STEM == <<109,111,100,117,108,101,95>>

\* (52, 28, 32), the candidate record widths in the order they are tried
CHUNK_SIZES == <<52, 28, 32>>

\* offset_byte_count + 48, and u32(-48) .. u32(-36)
FOOTER_BACK == 48

\* path_off - 50
WINDOW_BEFORE == 50

\* path_off + path_len + 10
WINDOW_AFTER == 10

\* actual_start + path_len + 20
NO_NULL_EXTRA == 20

\* contents[:1000]
SAMPLE_LEN == 1000

\* > 900
TEXT_THRESHOLD == 900

---------------------------------------------------------------------------
(* Python's built-ins, as the source uses them.                            *)

Min2(a, b) == IF a < b THEN a ELSE b

Max2(a, b) == IF a > b THEN a ELSE b

\* An index of a slice: counted from the end when negative, then clamped.
SliceIndex(k, n) == IF k < 0 THEN Max2(k + n, 0) ELSE Min2(k, n)

\* s[a:b]
PySlice(s, a, b) ==
    LET lo == SliceIndex(a, Len(s))
        hi == SliceIndex(b, Len(s))
    IN  IF lo >= hi THEN <<>> ELSE SubSeq(s, lo + 1, hi)

\* min(n, a + b) for a, b >= 0: where the slice s[... : a + b] of n items
\* ends.  The sum is not formed when it is past n, so that no u32 operand
\* takes the evaluation out of TLC's 32-bit integers.
EndAt(n, a, b) == IF a >= n \/ b >= n THEN n ELSE Min2(n, a + b)

\* s[a:]
PySliceFrom(s, a) == PySlice(s, a, Len(s))

\* Whether sub occurs in s at offset k.
OccursAt(s, sub, k) ==
    /\ k >= 0
    /\ k + Len(sub) <= Len(s)
    /\ \A j \in 1..Len(sub) : s[k + j] = sub[j]

SetMin(S) == CHOOSE x \in S : \A y \in S : x <= y

SetMax(S) == CHOOSE x \in S : \A y \in S : x >= y

\* s.find(sub, start), start >= 0: the lowest offset >= start, or -1
PyFind(s, sub, start) ==
    LET hits == {k \in start..(Len(s) - Len(sub)) : OccursAt(s, sub, k)}
    IN  IF hits = {} THEN -1 ELSE SetMin(hits)

\* s.rfind(sub): the highest offset, or -1
PyRFind(s, sub) ==
    LET hits == {k \in 0..(Len(s) - Len(sub)) : OccursAt(s, sub, k)}
    IN  IF hits = {} THEN -1 ELSE SetMax(hits)

\* s.startswith(prefix)
StartsWith(s, prefix) == OccursAt(s, prefix, 0)

\* s.endswith(suffix)
EndsWith(s, suffix) ==
    Len(suffix) <= Len(s) /\ OccursAt(s, suffix, Len(s) - Len(suffix))

\* s.split(b"\x00")[0]
BeforeFirstNull(s) ==
    LET n == PyFind(s, <<0>>, 0)
    IN  IF n < 0 THEN s ELSE SubSeq(s, 1, n)

\* s.strip(chars)
PyStrip(s, chars) ==
    LET keep == {k \in 1..Len(s) : s[k] \notin chars}
    IN  IF keep = {} THEN <<>> ELSE SubSeq(s, SetMin(keep), SetMax(keep))

\* str(n) for n >= 0, as code points
RECURSIVE DecStr(_)
DecStr(n) ==
    IF n < 10 THEN <<48 + n>> ELSE DecStr(n \div 10) \o <<48 + (n % 10)>>

\* struct.unpack_from("<I", buf, off)[0]; -1 stands for struct.error.  A
\* negative offset counts from the end of the buffer when the four bytes
\* fit before the end and the offset is within the buffer.
UnpackU32(buf, off) ==
    LET n   == Len(buf)
        at  == IF off < 0 THEN off + n ELSE off
    IN  IF off < 0 /\ (off + 4 > 0 \/ off + n < 0) THEN -1
        ELSE IF n - at < 4 THEN -1
        ELSE buf[at + 1] + 256 * buf[at + 2] + 65536 * buf[at + 3]
             + 16777216 * buf[at + 4]

IsCont(b) == b >= 128 /\ b <= 191

\* How bytes.decode("utf-8", errors="replace") reads the sequence that
\* starts at s[k] (1-based): <<number of bytes consumed, code point>>, the
\* code point being 65533 (U+FFFD) for an invalid or truncated sequence.
Utf8Step(s, k) ==
    LET n   == Len(s)
        b1  == s[k]
        rem == n - k + 1
        b2  == IF rem >= 2 THEN s[k + 1] ELSE -1
        b3  == IF rem >= 3 THEN s[k + 2] ELSE -1
        b4  == IF rem >= 4 THEN s[k + 3] ELSE -1
        bad2 == \/ ~IsCont(b2)
                \/ (b1 = 224 /\ b2 < 160)
                \/ (b1 = 237 /\ b2 >= 160)
                \/ (b1 = 240 /\ b2 < 144)
                \/ (b1 = 244 /\ b2 >= 144)
    IN  IF b1 < 128 THEN <<1, b1>>
        ELSE IF b1 < 194 \/ b1 > 244 THEN <<1, 65533>>
        ELSE IF b1 < 224 THEN
            IF rem < 2 THEN <<rem, 65533>>
            ELSE IF ~IsCont(b2) THEN <<1, 65533>>
            ELSE <<2, (b1 - 192) * 64 + (b2 - 128)>>
        ELSE IF b1 < 240 THEN
            IF rem < 2 THEN <<rem, 65533>>
            ELSE IF bad2 THEN <<1, 65533>>
            ELSE IF rem < 3 THEN <<rem, 65533>>
            ELSE IF ~IsCont(b3) THEN <<2, 65533>>
            ELSE <<3, (b1 - 224) * 4096 + (b2 - 128) * 64 + (b3 - 128)>>
        ELSE
            IF rem < 2 THEN <<rem, 65533>>
            ELSE IF bad2 THEN <<1, 65533>>
            ELSE IF rem < 3 THEN <<rem, 65533>>
            ELSE IF ~IsCont(b3) THEN <<2, 65533>>
            ELSE IF rem < 4 THEN <<rem, 65533>>
            ELSE IF ~IsCont(b4) THEN <<3, 65533>>
            ELSE <<4, (b1 - 240) * 262144 + (b2 - 128) * 4096
                      + (b3 - 128) * 64 + (b4 - 128)>>

\* The decoding of s from s[k] on; a run of ASCII bytes is taken at once.
RECURSIVE Utf8From(_, _)
Utf8From(s, k) ==
    IF k > Len(s) THEN <<>>
    ELSE IF s[k] < 128
    THEN LET high == {j \in k..Len(s) : s[j] >= 128}
             stop == IF high = {} THEN Len(s) + 1 ELSE SetMin(high)
         IN  SubSeq(s, k, stop - 1) \o Utf8From(s, stop)
    ELSE LET st == Utf8Step(s, k)
         IN  <<st[2]>> \o Utf8From(s, k + st[1])

\* b.decode("utf-8", errors="replace")
DecodeUtf8(b) == Utf8From(b, 1)

---------------------------------------------------------------------------
(* parse_footer                                                            *)

\* The check with the slice one byte short: the first byte of the trailer
\* is not compared.
TrailerMatchesLast15(s) ==
    PySliceFrom(s, Len(s) - (Len(BUN_TRAILER) - 1)) = Tail(BUN_TRAILER)

\* trailer == BUN_TRAILER, with trailer = section[section_size - 16:]
TrailerMatches(s) == PySliceFrom(s, Len(s) - Len(BUN_TRAILER)) = BUN_TRAILER

\* The four fields read from the 16 bytes that end where the trailer begins.
FooterOffsetsBeforeMarker ==
    <<0 - 2 * Len(BUN_TRAILER), 4 - 2 * Len(BUN_TRAILER),
      8 - 2 * Len(BUN_TRAILER), 12 - 2 * Len(BUN_TRAILER)>>

\* The offsets from the end at which the four fields are read, in the
\* order of the dict: offset_byte_count, entrypoint_id, modules_ptr_offset,
\* modules_ptr_length.
FooterOffsets == <<0 - FOOTER_BACK, 4 - FOOTER_BACK, 8 - FOOTER_BACK,
                   12 - FOOTER_BACK>>

\* u32(off_from_end)
FooterU32(s, off_from_end) == UnpackU32(s, Len(s) + off_from_end)

NoFooter == [offset_byte_count |-> -1, entrypoint_id |-> -1,
             modules_ptr_offset |-> -1, modules_ptr_length |-> -1]

\* parse_footer(section): the footer, or the exception raised
\* ("TrailerMismatch" is the AssertionError of the trailer check).
parse_footer(s) ==
    IF ~TrailerMatches(s)
    THEN [status |-> "TrailerMismatch", footer |-> NoFooter]
    ELSE LET f == [offset_byte_count  |-> FooterU32(s, FooterOffsets[1]),
                   entrypoint_id      |-> FooterU32(s, FooterOffsets[2]),
                   modules_ptr_offset |-> FooterU32(s, FooterOffsets[3]),
                   modules_ptr_length |-> FooterU32(s, FooterOffsets[4])]
         IN  IF \/ f.offset_byte_count < 0 \/ f.entrypoint_id < 0
                \/ f.modules_ptr_offset < 0 \/ f.modules_ptr_length < 0
             THEN [status |-> "StructError", footer |-> NoFooter]
             ELSE [status |-> "ok", footer |-> f]

---------------------------------------------------------------------------
(* extract_modules                                                         *)

\* metadata_start = section_size - (offset_byte_count + 48)
\*                  + modules_ptr_offset
MetadataStart(s, f) ==
    (Len(s) - (f.offset_byte_count + FOOTER_BACK)) + f.modules_ptr_offset

\* The candidates with the first two exchanged.
CandidatesReordered == <<CHUNK_SIZES[2], CHUNK_SIZES[1], CHUNK_SIZES[3]>>

\* The candidates tried, in order.
Candidates == CHUNK_SIZES

\* for cs in (52, 28, 32): if modules_ptr_length % cs == 0: ... break
\* 0 stands for chunk_size = None.
RECURSIVE FirstDivisor(_, _, _)
FirstDivisor(cands, k, length) ==
    IF k > Len(cands) THEN 0
    ELSE IF length % cands[k] = 0 THEN cands[k]
    ELSE FirstDivisor(cands, k + 1, length)

ChunkSize(length) == FirstDivisor(Candidates, 1, length)

\* The four fields of the record at meta_off; -1 where unpack_from raises.
RecordFields(s, meta_off) ==
    [path_off     |-> UnpackU32(s, meta_off),
     path_len     |-> UnpackU32(s, meta_off + 4),
     contents_off |-> UnpackU32(s, meta_off + 8),
     contents_len |-> UnpackU32(s, meta_off + 12)]

RecordRaises(r) ==
    r.path_off < 0 \/ r.path_len < 0 \/ r.contents_off < 0 \/ r.contents_len < 0

\* search_start = max(0, path_off - 50)
SearchStart(path_off) == Max2(0, path_off - WINDOW_BEFORE)

\* chunk = section[search_start : path_off + path_len + 10]
PathWindow(s, path_off, path_len) ==
    PySlice(s, SearchStart(path_off),
            EndAt(Len(s), path_off, EndAt(Len(s), path_len, WINDOW_AFTER)))

\* The search from the front: chunk.find(b"/$bunfs/root").
BunfsIdxFirst(chunk) == PyFind(chunk, BUNFS_ROOT, 0)

\* bunfs_idx = chunk.rfind(b"/$bunfs/root")
BunfsIdx(chunk) == PyRFind(chunk, BUNFS_ROOT)

\* The bytes that are decoded into path (lines 123-137).
RawPath(s, path_off, path_len) ==
    LET bunfs_idx == BunfsIdx(PathWindow(s, path_off, path_len))
        actual_start == SearchStart(path_off) + bunfs_idx
        null_end == PyFind(s, <<0>>, actual_start)
    IN  IF bunfs_idx >= 0
        THEN IF null_end > 0
             THEN PySlice(s, actual_start, null_end)
             ELSE BeforeFirstNull(
                      PySlice(s, actual_start,
                              EndAt(Len(s), actual_start,
                                    EndAt(Len(s), path_len, NO_NULL_EXTRA))))
        ELSE PySlice(s, path_off, EndAt(Len(s), path_off, path_len))

\* for prefix in (...): if path.startswith(prefix): path = path[len:]; break
RECURSIVE StripRootPrefix(_, _)
StripRootPrefix(path, k) ==
    IF k > Len(PREFIXES) THEN path
    ELSE IF StartsWith(path, PREFIXES[k])
         THEN SubSeq(path, Len(PREFIXES[k]) + 1, Len(path))
         ELSE StripRootPrefix(path, k + 1)

\* path = path.strip("/\n\t\x00")
StripPath(path) == PyStrip(path, STRIP_CHARS)

\* The placeholder without its extension: f"module_{i}".
PlaceholderBare(i) == MODULE_STEM \o DecStr(i)

\* f"module_{i}.js"
Placeholder(i) == MODULE_STEM \o DecStr(i) \o JS_SUFFIX

\* if not path: path = f"module_{i}.js"
OrPlaceholder(path, i) == IF path = <<>> THEN Placeholder(i) ELSE path

\* The path of record i (lines 118-146).
RecoverPath(s, i, path_off, path_len) ==
    OrPlaceholder(
        StripPath(StripRootPrefix(DecodeUtf8(RawPath(s, path_off, path_len)), 1)),
        i)

\* contents = section[contents_off : contents_off + contents_len]
Contents(s, contents_off, contents_len) ==
    PySlice(s, contents_off, EndAt(Len(s), contents_off, contents_len))

Printable(b) == (32 <= b /\ b < 127) \/ b \in {9, 10, 13}

\* sum(1 for b in contents[:1000] if ...) > 900
IsText(contents) ==
    LET sample == PySlice(contents, 0, SAMPLE_LEN)
    IN  Cardinality({k \in 1..Len(sample) : Printable(sample[k])})
            > TEXT_THRESHOLD

\* The dict appended for record i.
ModuleOf(s, i, r) ==
    LET contents == Contents(s, r.contents_off, r.contents_len)
    IN  [index    |-> i,
         path     |-> RecoverPath(s, i, r.path_off, r.path_len),
         contents |-> contents,
         is_text  |-> IsText(contents)]

\* for i in range(num_modules): ... modules.append(...); a struct.error of
\* a record read leaves the function, and the list built so far with it.
RECURSIVE ExtractLoop(_, _, _, _, _, _)
ExtractLoop(s, metadata_start, cs, num, i, acc) ==
    IF i >= num THEN [status |-> "ok", modules |-> acc]
    ELSE LET r == RecordFields(s, metadata_start + i * cs)
         IN  IF RecordRaises(r)
             THEN [status |-> "StructError", modules |-> <<>>]
             ELSE ExtractLoop(s, metadata_start, cs, num, i + 1,
                              Append(acc, ModuleOf(s, i, r)))

\* extract_modules(section, footer): the list returned or the exception
\* ("UnknownRecordWidth" is the AssertionError of chunk_size is not None),
\* with the locals chunk_size and num_modules as they were on leaving.
extract_modules(s, f) ==
    LET cs == ChunkSize(f.modules_ptr_length)
    IN  IF cs = 0
        THEN [status |-> "UnknownRecordWidth", chunk_size |-> 0,
              num_modules |-> 0, modules |-> <<>>]
        ELSE LET num == f.modules_ptr_length \div cs
                 res == ExtractLoop(s, MetadataStart(s, f), cs, num, 0, <<>>)
             IN  [status |-> res.status, chunk_size |-> cs,
                  num_modules |-> num, modules |-> res.modules]

---------------------------------------------------------------------------
(* strip_bytecode_prefix                                                   *)

\* while i < len(js) and js[i] < 32 and js[i] not in (9, 10, 13): i += 1
RECURSIVE SkipControl(_, _)
SkipControl(js, i) ==
    IF i < Len(js) /\ js[i + 1] < 32 /\ js[i + 1] \notin {9, 10, 13}
    THEN SkipControl(js, i + 1)
    ELSE i

\* The strip without the loop over the leading control bytes.
strip_keep_control(contents) ==
    LET pos == PyFind(contents, WRAPPER, 0)
    IN  IF pos < 0 THEN contents
        ELSE PySliceFrom(contents, pos + Len(WRAPPER))

strip_bytecode_prefix(contents) ==
    LET pos == PyFind(contents, WRAPPER, 0)
        js  == PySliceFrom(contents, pos + Len(WRAPPER))
    IN  IF pos < 0 THEN contents
        ELSE PySliceFrom(js, SkipControl(js, 0))

---------------------------------------------------------------------------
(* main: the files written.  A file-system path is a sequence of segments, *)
(* a segment a sequence of code points; <<>> is the root directory.        *)

\* out_dir = args.output_dir / version, here /out/v
OUT_DIR == << <<111,117,116>>, <<118>> >>

\* The segments of path[k..] between "/" characters, empty ones included.
RECURSIVE SplitSlash(_, _)
SplitSlash(path, k) ==
    LET slashes == {j \in k..Len(path) : path[j] = 47}
    IN  IF slashes = {} THEN <<SubSeq(path, k, Len(path))>>
        ELSE <<SubSeq(path, k, SetMin(slashes) - 1)>>
             \o SplitSlash(path, SetMin(slashes) + 1)

\* pathlib drops the empty segments and the "." segments of the right
\* operand of "/"; ".." segments are kept.
PathParts(path) ==
    SelectSeq(SplitSlash(path, 1), LAMBDA g : g # <<>> /\ g # <<46>>)

\* out_path = out_dir / path   (path never starts with "/": it was stripped)
OutPath(path) == OUT_DIR \o PathParts(path)

\* out_path.parent; the parent of a path without segments is itself
Parent(p) == IF p = <<>> THEN p ELSE SubSeq(p, 1, Len(p) - 1)

\* The directory the operating system reaches walking p: ".." steps up, and
\* stays at the root when already there.
RECURSIVE Resolve(_, _, _)
Resolve(p, k, at) ==
    IF k > Len(p) THEN at
    ELSE IF p[k] = <<46, 46>>
         THEN Resolve(p, k + 1, Parent(at))
         ELSE Resolve(p, k + 1, Append(at, p[k]))

Resolved(p) == Resolve(p, 1, <<>>)

\* Every directory that mkdir(parents=True) of p visits: the location of
\* each leading part of p.
Visited(p) == {Resolved(SubSeq(p, 1, k)) : k \in 0..Len(p)}

FilePaths(fs) == {f.path : f \in fs}

HasNull(p) == \E k \in 1..Len(p) : \E j \in 1..Len(p[k]) : p[k][j] = 0

\* The bytes of a code point in the file system's encoding, UTF-8.
Utf8Len(c) == IF c < 128 THEN 1 ELSE IF c < 2048 THEN 2 ELSE IF c < 65536 THEN 3 ELSE 4

RECURSIVE NameBytes(_, _)
NameBytes(g, k) == IF k = 0 THEN 0 ELSE NameBytes(g, k - 1) + Utf8Len(g[k])

\* A segment the file system refuses: more than 255 bytes (ENAMETOOLONG).
\* No segment of more than 255 code points is measured further.
TooLong(p) ==
    \E k \in 1..Len(p) : Len(p[k]) > 255 \/ NameBytes(p[k], Len(p[k])) > 255

\* p.mkdir(parents=True, exist_ok=True): the exception raised, or "ok".  A
\* path with a null character is refused before the file system is asked;
\* a file where a directory is needed is an OSError.
MkdirStatus(p, fs) ==
    IF HasNull(p) THEN "ValueError"
    ELSE IF TooLong(p) THEN "OSError"
    ELSE IF Visited(p) \cap FilePaths(fs) # {} THEN "OSError"
    ELSE "ok"

\* out_path.write_bytes(contents): the exception raised, or "ok".  Writing
\* to a directory is an OSError.
WriteStatus(p, ds, fs) ==
    IF HasNull(p) THEN "ValueError"
    ELSE IF TooLong(p) THEN "OSError"
    ELSE IF Resolved(p) \in ds THEN "OSError"
    ELSE "ok"

\* if mod["is_text"]: contents = strip_bytecode_prefix(contents)
OutContents(mod) ==
    IF mod.is_text THEN strip_bytecode_prefix(mod.contents) ELSE mod.contents

\* if mod["is_text"] and not path.endswith(".js"): path = path + ".js"
OutName(mod) ==
    IF mod.is_text /\ ~EndsWith(mod.path, JS_SUFFIX)
    THEN mod.path \o JS_SUFFIX
    ELSE mod.path

---------------------------------------------------------------------------
(* The steps of main, from the section read (line 244) on.                 *)

\* footer = parse_footer(section)
ParseFooter ==
    /\ pc = "parse_footer"
    /\ LET r == parse_footer(section)
       IN  /\ footer' = r.footer
           /\ err' = IF r.status = "ok" THEN err ELSE r.status
           /\ pc' = IF r.status = "ok" THEN "extract_modules" ELSE "failed"
    /\ UNCHANGED <<section, text_only, chunk_size, num_modules, modules,
                   next_mod, dirs, files, written>>

\* modules = extract_modules(section, footer)
ExtractModules ==
    /\ pc = "extract_modules"
    /\ LET r == extract_modules(section, footer)
       IN  /\ chunk_size' = r.chunk_size
           /\ num_modules' = r.num_modules
           /\ modules' = r.modules
           /\ err' = IF r.status = "ok" THEN err ELSE r.status
           /\ pc' = IF r.status = "ok" THEN "mkdir" ELSE "failed"
    /\ UNCHANGED <<section, text_only, footer, next_mod, dirs, files, written>>

\* out_dir.mkdir(parents=True, exist_ok=True)
MakeOutDir ==
    /\ pc = "mkdir"
    /\ dirs' = dirs \cup Visited(OUT_DIR)
    /\ pc' = "write"
    /\ UNCHANGED <<section, text_only, err, footer, chunk_size, num_modules,
                   modules, next_mod, files, written>>

\* if args.text_only and not mod["is_text"]: continue
SkipModule ==
    /\ pc = "write"
    /\ next_mod <= Len(modules)
    /\ text_only /\ ~modules[next_mod].is_text
    /\ next_mod' = next_mod + 1
    /\ UNCHANGED <<section, text_only, pc, err, footer, chunk_size,
                   num_modules, modules, dirs, files, written>>

\* One pass of the loop body, lines 259-278: the parent directories are
\* made, then the file is written; an exception of either ends main.
WriteModule ==
    /\ pc = "write"
    /\ next_mod <= Len(modules)
    /\ ~(text_only /\ ~modules[next_mod].is_text)
    /\ LET mod      == modules[next_mod]
           contents == OutContents(mod)
           path     == OutName(mod)
           out_path == OutPath(path)
           mk       == MkdirStatus(Parent(out_path), files)
           ds       == IF mk = "ok" THEN dirs \cup Visited(Parent(out_path))
                       ELSE dirs
           wr       == IF mk = "ok" THEN WriteStatus(out_path, ds, files)
                       ELSE mk
       IN  /\ dirs' = ds
           /\ IF wr = "ok"
              THEN /\ files' = {f \in files : f.path # Resolved(out_path)}
                                 \cup {[path |-> Resolved(out_path),
                                        contents |-> contents]}
                   /\ written' = Append(written,
                                        [index |-> mod.index, path |-> path,
                                         file |-> Resolved(out_path),
                                         contents |-> contents])
                   /\ next_mod' = next_mod + 1
                   /\ UNCHANGED <<pc, err>>
              ELSE /\ pc' = "failed"
                   /\ err' = wr
                   /\ UNCHANGED <<files, written, next_mod>>
    /\ UNCHANGED <<section, text_only, footer, chunk_size, num_modules,
                   modules>>

\* The loop is over: main goes on to prettify and returns.
Finish ==
    /\ pc = "write"
    /\ next_mod > Len(modules)
    /\ pc' = "done"
    /\ UNCHANGED <<section, text_only, err, footer, chunk_size, num_modules,
                   modules, next_mod, dirs, files, written>>

---------------------------------------------------------------------------
(* The sections main is run on: containers laid out as the decoder reads   *)
(* them (data, then the records, then the footer fields 48 bytes before    *)
(* the end, 16 further bytes and the trailer), and damaged variants.       *)

\* The most records a generated container holds.
MaxModules == 2

\* The most 16-byte blocks of foreign bytes in front of a container.
MaxPad == 1

\* A u32, little-endian.
LE32(v) == <<v % 256, (v \div 256) % 256, (v \div 65536) % 256,
             (v \div 16777216) % 256>>

\* n printable bytes (lower-case letters).
Fill(n) == [k \in 1..n |-> 97 + (k % 26)]

\* n bytes of value b.
Rep(b, n) == [k \in 1..n |-> b]

\* An offset or a length far beyond every section generated.
Far == 70000

\* How a path is stored: the bytes of the string table, the offset in them
\* that the record declares, and the length it declares.
PathKinds == <<
    \* "/$bunfs/root/a.js\0", declared from its start
    [str |-> <<47,36,98,117,110,102,115,47,114,111,111,116,47,97,46,106,115,0>>,
     po |-> 0, pl |-> 17],
    \* "/$bunfs/root/src/b\0", declared as "src/b"
    [str |-> <<47,36,98,117,110,102,115,47,114,111,111,116,47,115,114,99,47,98,0>>,
     po |-> 13, pl |-> 5],
    \* "lib/c.js", no root literal and no null
    [str |-> <<108,105,98,47,99,46,106,115>>, po |-> 0, pl |-> 8],
    \* "/$bunfs/root/../../e\0"
    [str |-> <<47,36,98,117,110,102,115,47,114,111,111,116,47,46,46,47,46,46,47,101,0>>,
     po |-> 0, pl |-> 20],
    \* no bytes at all
    [str |-> <<>>, po |-> 0, pl |-> 0],
    \* "//\n\t"
    [str |-> <<47,47,10,9>>, po |-> 0, pl |-> 4],
    \* "d\r\n"
    [str |-> <<100,13,10>>, po |-> 0, pl |-> 3],
    \* "/$bunfs/root/x\0/$bunfs/root/y.js\0", declared from its start with a
    \* length that puts the second literal inside the window
    [str |-> <<47,36,98,117,110,102,115,47,114,111,111,116,47,120,0,47,36,98,
               117,110,102,115,47,114,111,111,116,47,121,46,106,115,0>>,
     po |-> 0, pl |-> 20],
    \* an offset past the end of the section
    [str |-> <<>>, po |-> Far, pl |-> 5],
    \* b"\xfff\xc3\xa9": an invalid byte, "f", e-acute
    [str |-> <<255,102,195,169>>, po |-> 0, pl |-> 4],
    \* "/$bunfs/root\0"
    [str |-> <<47,36,98,117,110,102,115,47,114,111,111,116,0>>, po |-> 0, pl |-> 12],
    \* "a\0b"
    [str |-> <<97,0,98>>, po |-> 0, pl |-> 3],
    \* "/$bunfs/root/a.js/k\0"
    [str |-> <<47,36,98,117,110,102,115,47,114,111,111,116,47,97,46,106,115,47,107,0>>,
     po |-> 0, pl |-> 19] >>

\* The contents stored and the length the record declares.
ContentKinds == <<
    \* four bytes, not text
    [blob |-> <<0, 1, 2, 255>>, cl |-> 4],
    \* the wrapper and 841 printable bytes: 901 printable bytes
    [blob |-> WRAPPER \o Fill(TEXT_THRESHOLD + 1 - Len(WRAPPER)),
     cl |-> TEXT_THRESHOLD + 1],
    \* the wrapper, two control bytes, 842 printable bytes
    [blob |-> WRAPPER \o <<0, 1>> \o Fill(TEXT_THRESHOLD + 2 - Len(WRAPPER)),
     cl |-> TEXT_THRESHOLD + 4],
    \* the wrapper and "x=1;"
    [blob |-> WRAPPER \o <<120,61,49,59>>, cl |-> Len(WRAPPER) + 4],
    \* 901 printable bytes without the wrapper
    [blob |-> Fill(TEXT_THRESHOLD + 1), cl |-> TEXT_THRESHOLD + 1],
    \* the wrapper and 840 printable bytes: 900 printable bytes
    [blob |-> WRAPPER \o Fill(TEXT_THRESHOLD - Len(WRAPPER)),
     cl |-> TEXT_THRESHOLD],
    \* a declared length past the end of the section
    [blob |-> <<120,61,49,59>>, cl |-> Far],
    \* two bytes of bytecode header, the wrapper, 841 printable bytes
    [blob |-> <<190, 239>> \o WRAPPER \o Fill(TEXT_THRESHOLD + 1 - Len(WRAPPER)),
     cl |-> TEXT_THRESHOLD + 3],
    \* nothing
    [blob |-> <<>>, cl |-> 0] >>

Desc(p, c) ==
    [str |-> PathKinds[p].str, po |-> PathKinds[p].po, pl |-> PathKinds[p].pl,
     blob |-> ContentKinds[c].blob, cl |-> ContentKinds[c].cl]

\* The modules that multi-record containers are made of.
Palette == << Desc(1, 1), Desc(3, 4), Desc(4, 2), Desc(13, 9) >>

\* The string and contents of the first k modules, one after the other.
RECURSIVE DataUpTo(_, _)
DataUpTo(mods, k) ==
    IF k = 0 THEN <<>>
    ELSE DataUpTo(mods, k - 1) \o mods[k].str \o mods[k].blob

\* Record k for data that starts at offset base; the reserved bytes of a
\* record are 1.
RecordBytes(mods, k, base, width) ==
    LET at == base + Len(DataUpTo(mods, k - 1))
    IN  LE32(at + mods[k].po) \o LE32(mods[k].pl)
        \o LE32(at + Len(mods[k].str)) \o LE32(mods[k].cl)
        \o Rep(1, width - 16)

RECURSIVE IndexUpTo(_, _, _, _)
IndexUpTo(mods, k, base, width) ==
    IF k = 0 THEN <<>>
    ELSE IndexUpTo(mods, k - 1, base, width) \o RecordBytes(mods, k, base, width)

\* The 16 bytes between the four footer fields and the trailer.
Gap == <<7, 0, 0, 0, 0, 0, 0, 0, 0, 0, 0, 0, 1, 0, 0, 0>>

\* A section: foreign bytes, data, index, the footer fields, gap, trailer.
\* offset_byte_count is chosen so that the data starts after the pad, and
\* modules_ptr_offset so that the index follows the data.
Assemble(pad, data, index, mpl, gap) ==
    Rep(35, pad) \o data \o index
    \o LE32(Len(data) + Len(index)) \o LE32(0) \o LE32(Len(data)) \o LE32(mpl)
    \o gap \o BUN_TRAILER

\* A well-formed container of the modules mods, with records of one width.
Build(mods, width, pad) ==
    LET index == IndexUpTo(mods, Len(mods), pad, width)
    IN  Assemble(pad, DataUpTo(mods, Len(mods)), index, Len(index), Gap)

\* n copies of one module.
Copies(d, n) == [k \in 1..n |-> d]

Widths == {CHUNK_SIZES[k] : k \in 1..Len(CHUNK_SIZES)}

Pads == {16 * k : k \in 0..MaxPad}

ModSeqs ==
    UNION {{[k \in 1..n |-> Palette[f[k]]] : f \in [1..n -> 1..Len(Palette)]}
           : n \in 0..MaxModules}

\* Well-formed containers of up to MaxModules palette modules.
GoodSections == {Build(mods, w, pad) : mods \in ModSeqs, w \in Widths, pad \in Pads}

\* One module of every path kind and content kind.
SingleSections ==
    {Build(<<Desc(p, c)>>, CHUNK_SIZES[1], 0) :
        p \in 1..Len(PathKinds), c \in 1..Len(ContentKinds)}

\* Containers whose index length several candidate widths divide: 13
\* records of 28 bytes (7 of 52), 7 records of 32 bytes (8 of 28), and the
\* same lengths in records of 52 and 28 bytes.
AmbiguousSections ==
    { Build(Copies(Desc(1, 1), 13), 28, 0), Build(Copies(Desc(1, 1), 7), 32, 0),
      Build(Copies(Desc(1, 1), 7), 52, 0), Build(Copies(Desc(1, 1), 8), 28, 0) }

BaseSmall == Build(<<Palette[1], Palette[2]>>, CHUNK_SIZES[1], 0)

\* 28 records of 52 bytes, of modules without a path and without contents.
BaseIndex == Build(Copies(Desc(5, 9), 28), CHUNK_SIZES[1], 0)

\* s with the byte at offset k (0-based) replaced by b.
Patch(s, k, b) == [s EXCEPT ![k + 1] = b]

\* s with the u32 at offset k replaced by v.
PatchU32(s, k, v) ==
    [j \in 1..Len(s) |-> IF j > k /\ j <= k + 4 THEN LE32(v)[j - k] ELSE s[j]]

\* A trailer with one byte changed, a section cut short at its end, and the
\* last n bytes alone of a container, for every n below 48.
DamagedTrailers ==
    {Patch(BaseSmall, Len(BaseSmall) - j, (BaseSmall[Len(BaseSmall) - j + 1] + 1) % 256)
        : j \in 1..Len(BUN_TRAILER)}
    \cup {SubSeq(BaseSmall, 1, Len(BaseSmall) - j) : j \in 1..Len(BUN_TRAILER)}
    \cup {PySliceFrom(BaseSmall, Len(BaseSmall) - n) : n \in 0..(FOOTER_BACK - 1)}

\* Index lengths: none, one and several of the candidates dividing them.
Lengths == {0, 16, 28, 30, 32, 52, 56, 64, 84, 100, 104, 224, 364, 1456}

\* A container whose footer declares another index length: shorter than
\* the index, or running into the footer and past the end of the section.
RelengthedSections ==
    {PatchU32(base, Len(base) - FOOTER_BACK + 12, len)
        : len \in Lengths, base \in {BaseSmall, BaseIndex}}

\* A container whose offset_byte_count puts metadata_start before the start
\* of the section, by m bytes.
ShiftedSections ==
    {PatchU32(BaseSmall, Len(BaseSmall) - FOOTER_BACK,
              UnpackU32(BaseSmall, Len(BaseSmall) - FOOTER_BACK) + m
              + MetadataStart(BaseSmall, parse_footer(BaseSmall).footer))
        : m \in {1, 4, 16, 52, 68, Len(BaseSmall), Len(BaseSmall) + 1}}

\* A container whose footer declares one record more than the index holds:
\* the last record present keeps its 16 bytes of fields only, so that the
\* record declared after it starts 12 bytes before the end of the section.
CutIndex(mods, pad) ==
    LET w    == CHUNK_SIZES[1]
        full == IndexUpTo(mods, Len(mods), pad, w)
        cut  == SubSeq(full, 1, Len(full) - (w - 16))
    IN  Assemble(pad, DataUpTo(mods, Len(mods)), cut, w * (Len(mods) + 1), Gap)

CutSections ==
    {CutIndex([k \in 1..n |-> Palette[k]], pad) : n \in 1..MaxModules, pad \in Pads}

\* A container whose 16 bytes before the trailer are "/$bunfs/rootz.js" and
\* whose one record declares its path there: no null byte follows it.
GapPathSection ==
    LET d     == Desc(5, 1)
        mods  == <<[d EXCEPT !.po = Len(d.blob) + CHUNK_SIZES[1] + 16, !.pl = 16]>>
        index == IndexUpTo(mods, 1, 0, CHUNK_SIZES[1])
    IN  Assemble(0, DataUpTo(mods, 1), index, Len(index),
                 <<47,36,98,117,110,102,115,47,114,111,111,116,122,46,106,115>>)

Sections ==
    GoodSections \cup SingleSections \cup AmbiguousSections
    \cup DamagedTrailers \cup RelengthedSections \cup ShiftedSections
    \cup CutSections \cup {GapPathSection}

---------------------------------------------------------------------------

Init ==
    /\ section \in Sections
    /\ text_only \in BOOLEAN
    /\ pc = "parse_footer"
    /\ err = "none"
    /\ footer = NoFooter
    /\ chunk_size = 0
    /\ num_modules = 0
    /\ modules = <<>>
    /\ next_mod = 1
    /\ dirs = {<<>>}
    /\ files = {}
    /\ written = <<>>

Next ==
    \/ ParseFooter
    \/ ExtractModules
    \/ MakeOutDir
    \/ SkipModule
    \/ WriteModule
    \/ Finish

Spec == Init /\ [][Next]_vars

---------------------------------------------------------------------------
(* What the properties below read off the section, written out from the    *)
(* bytes and not through the decoder's own operators.                      *)

Size == Len(section)

\* The section's last 16 bytes are the trailer.
EndsWithMarker ==
    /\ Size >= 16
    /\ \A k \in 1..16 : section[Size - 16 + k] = BUN_TRAILER[k]

\* The little-endian u32 stored at offset off, 0 <= off <= Size - 4.
LEAt(off) ==
    section[off + 1] + 256 * section[off + 2] + 65536 * section[off + 3]
    + 16777216 * section[off + 4]

\* The bytes at the offsets a .. b-1, for 0 <= a and b <= Size.
BytesAt(a, b) == IF a >= b THEN <<>> ELSE [j \in 1..(b - a) |-> section[a + j]]

\* min(Size, a + b), for a, b >= 0.
Upto(a, b) == IF a >= Size \/ b >= Size THEN Size ELSE Min2(Size, a + b)

\* parse_footer returned a footer.
FooterParsed == footer.modules_ptr_length >= 0

\* extract_modules was called and has returned or raised.
ExtractTried == FooterParsed /\ pc \notin {"parse_footer", "extract_modules"}

\* extract_modules returned its list.
Extracted ==
    \/ pc \in {"mkdir", "write", "done"}
    \/ pc = "failed" /\ err \in {"ValueError", "OSError"}

\* Where the footer puts the first record.
IndexStart ==
    (Size - (footer.offset_byte_count + 48)) + footer.modules_ptr_offset

\* Whether four bytes can be read at off: inside the section, or, for a
\* negative off, counted from its end.
CanRead(off) ==
    \/ off >= 0 /\ off + 4 <= Size
    \/ off <= 0 - 4 /\ off + Size >= 0

\* Field j (0..3) of record i in records of width w, as the decoder read it.
FieldOf(i, j, w) ==
    LET off == IndexStart + i * w + 4 * j
    IN  LEAt(IF off < 0 THEN off + Size ELSE off)

PathOff(i) == FieldOf(i, 0, chunk_size)

PathLen(i) == FieldOf(i, 1, chunk_size)

ContentsOff(i) == FieldOf(i, 2, chunk_size)

ContentsLen(i) == FieldOf(i, 3, chunk_size)

\* The offsets of the root literal that lie wholly inside the window of
\* record i, region[max(0, path_offset-50) : path_offset+path_length+10].
LiteralsInWindow(i) ==
    LET from == IF PathOff(i) >= 50 THEN PathOff(i) - 50 ELSE 0
        to   == Upto(PathOff(i), Upto(PathLen(i), 10))
    IN  {p \in from..(to - 12) : \A j \in 1..12 : section[p + j] = BUNFS_ROOT[j]}

\* The raw path of record i.
RawPathOf(i) ==
    IF LiteralsInWindow(i) # {}
    THEN LET start == SetMax(LiteralsInWindow(i))
             nulls == {q \in start..(Size - 1) : section[q + 1] = 0}
         IN  IF nulls # {}
             THEN BytesAt(start, SetMin(nulls))
             ELSE BytesAt(start, Upto(start, Upto(PathLen(i), 20)))
    ELSE BytesAt(Min2(PathOff(i), Size), Upto(PathOff(i), PathLen(i)))

\* x with one leading "/$bunfs/root/" or "/$bunfs/root" removed.
Unprefixed(x) ==
    IF StartsWith(x, BUNFS_ROOT \o <<47>>) THEN SubSeq(x, 14, Len(x))
    ELSE IF StartsWith(x, BUNFS_ROOT) THEN SubSeq(x, 13, Len(x))
    ELSE x

\* "module_<i>.js"
PlaceholderJs(i) == <<109,111,100,117,108,101,95>> \o DecStr(i) \o <<46,106,115>>

\* "/" and the control characters (below 32, and 127).
SeparatorAndControl == {47, 127} \cup 0..31

\* The contents begin with the wrapper literal.
Wrapped(c) == Len(c) >= Len(WRAPPER) /\ \A j \in 1..Len(WRAPPER) : c[j] = WRAPPER[j]

\* What follows the wrapper literal.
Original(c) == SubSeq(c, Len(WRAPPER) + 1, Len(c))

\* More than 900 of the first 1000 bytes are printable ASCII, tab, newline
\* or carriage return.
CountsAsText(c) ==
    Cardinality({k \in 1..Min2(Len(c), 1000) :
                    (c[k] >= 32 /\ c[k] <= 126) \/ c[k] \in {9, 10, 13}}) > 900

\* x without its leading control bytes (below 32, other than 9, 10, 13).
WithoutLeadingControl(x) ==
    LET kept == {k \in 1..Len(x) : x[k] >= 32 \/ x[k] \in {9, 10, 13}}
    IN  IF kept = {} THEN <<>> ELSE SubSeq(x, SetMin(kept), Len(x))

\* The wrapper literal occurs nowhere in c.
NoWrapper(c) ==
    \A p \in 0..(Len(c) - Len(WRAPPER)) :
        \E j \in 1..Len(WRAPPER) : c[p + j] # WRAPPER[j]

\* The module that a written file came from.
SourceOf(w) == modules[w.index + 1]

\* Record i, read in records of width w, lies inside the section with its
\* path and its contents.
RecordInside(i, w) ==
    LET off == IndexStart + i * w
    IN  /\ off >= 0 /\ off + 16 <= Size
        /\ FieldOf(i, 0, w) <= Size /\ FieldOf(i, 1, w) <= Size - FieldOf(i, 0, w)
        /\ FieldOf(i, 2, w) <= Size /\ FieldOf(i, 3, w) <= Size - FieldOf(i, 2, w)

\* The section is a valid container of records of width w: the data starts
\* inside the section, the index ends before the footer, and every record
\* lies inside the section.
ValidAs(w) ==
    /\ footer.modules_ptr_length % w = 0
    /\ Size - (footer.offset_byte_count + 48) >= 0
    /\ IndexStart >= 0
    /\ footer.modules_ptr_length <= Size - 48 - IndexStart
    /\ \A i \in 0..(footer.modules_ptr_length \div w - 1) : RecordInside(i, w)

\* The records the footer declares that can be read inside the section.
ReadableRecords ==
    {i \in (IF IndexStart < 0 THEN (0 - IndexStart) \div chunk_size ELSE 0)
           ..Min2(num_modules - 1, (Size - IndexStart) \div chunk_size) :
        RecordInside(i, chunk_size)}

\* A file lies beneath the destination root.
Beneath(file) ==
    Len(file) > Len(OUT_DIR) /\ SubSeq(file, 1, Len(OUT_DIR)) = OUT_DIR

---------------------------------------------------------------------------
(* The claims.                                                             *)

\* C1: a section whose last 16 bytes are not the trailer (a section shorter
\* than the trailer included) makes parse_footer fail with the trailer
\* mismatch, and nothing further happens: no footer field is read, no
\* record is decoded, no directory is made and no file is written.
C1_TrailerMismatchAborts ==
    (pc # "parse_footer" /\ ~EndsWithMarker) =>
        /\ pc = "failed" /\ err = "TrailerMismatch"
        /\ footer = NoFooter /\ chunk_size = 0 /\ num_modules = 0
        /\ modules = <<>>
        /\ dirs = {<<>>} /\ files = {} /\ written = <<>>

\* C1, its case: a container of full size with a damaged trailer has failed.
C1_Witness ==
    /\ pc = "failed" /\ err = "TrailerMismatch"
    /\ Size >= 48 /\ ~EndsWithMarker

\* C3: the width used is the first of 52, 28, 32 that divides
\* modules_ptr_length (length 0 and lengths that several candidates divide
\* included) and the number of records to decode is length / width, which
\* is the number of modules returned unless a record read raised; when no
\* candidate divides the length the decode fails with the unknown width
\* and no module is returned or written.
C3_WidthInference ==
    ExtractTried =>
        LET length == footer.modules_ptr_length
            order  == <<52, 28, 32>>
            divs   == {k \in 1..3 : length % order[k] = 0}
        IN  IF divs = {}
            THEN /\ pc = "failed" /\ err = "UnknownRecordWidth"
                 /\ modules = <<>> /\ written = <<>>
            ELSE /\ \E k \in divs : /\ chunk_size = order[k]
                                    /\ \A j \in divs : k <= j
                 /\ num_modules * chunk_size = length
                 /\ (err = "StructError" \/ Len(modules) = num_modules)

\* C3, its case: a length that 52 and 28 both divide was decoded as seven
\* records of 52 bytes.
C3_Witness ==
    /\ ExtractTried /\ footer.modules_ptr_length = 364
    /\ chunk_size = 52 /\ Len(modules) = 7

\* C4 as amended: for a section of at least 48 bytes that ends with the
\* trailer, the footer fields are the four little-endian u32 values stored
\* at 48, 44, 40 and 36 bytes before the end of the section, in the order
\* offset_byte_count, entrypoint_id, modules_ptr_offset, modules_ptr_length:
\* the 16 bytes that end 16 bytes before the trailer begins.
C4_FooterAt48FromEnd ==
    (pc # "parse_footer" /\ EndsWithMarker /\ Size >= 48) =>
        footer = [offset_byte_count  |-> LEAt(Size - 48),
                  entrypoint_id      |-> LEAt(Size - 44),
                  modules_ptr_offset |-> LEAt(Size - 40),
                  modules_ptr_length |-> LEAt(Size - 36)]

\* C4, its case: the footer of a section far larger than the footer.
C4_Witness ==
    /\ pc = "extract_modules" /\ EndsWithMarker /\ Size >= 1000
    /\ footer.modules_ptr_length > 0 /\ footer.modules_ptr_offset > 0

\* C4 as stated: the footer fields are the four u32 values of the 16 bytes
\* that end where the trailer begins.
C4_FooterBeforeMarker ==
    (pc # "parse_footer" /\ EndsWithMarker /\ Size >= 48) =>
        footer = [offset_byte_count  |-> LEAt(Size - 32),
                  entrypoint_id      |-> LEAt(Size - 28),
                  modules_ptr_offset |-> LEAt(Size - 24),
                  modules_ptr_length |-> LEAt(Size - 20)]

\* C2: whenever the section is a valid container of N records of one
\* candidate width (its index length is N times that width and every
\* record, read at that width, lies inside the section with its path and
\* its contents), extract_modules returns exactly N modules in record
\* order, module k with index k and with the bytes of the section from
\* content_offset_k to content_offset_k + content_length_k.
C2_DecodesEveryRecord ==
    ExtractTried =>
        \A w \in {52, 28, 32} :
            ValidAs(w) =>
                /\ Extracted
                /\ Len(modules) * w = footer.modules_ptr_length
                /\ \A k \in 1..Len(modules) :
                      /\ modules[k].index = k - 1
                      /\ modules[k].contents =
                           BytesAt(FieldOf(k - 1, 2, w),
                                   FieldOf(k - 1, 2, w) + FieldOf(k - 1, 3, w))

\* C5: no module is returned from a read outside the section: every record
\* of a returned module was read at an offset that is not negative, and
\* its contents are the whole slice the record declares, which lies inside
\* the section.
C5_NoReadOutsideTheSection ==
    Extracted =>
        \A k \in 1..Len(modules) :
            /\ IndexStart + (k - 1) * chunk_size >= 0
            /\ ContentsOff(k - 1) <= Size
            /\ ContentsLen(k - 1) <= Size - ContentsOff(k - 1)
            /\ Len(modules[k].contents) = ContentsLen(k - 1)

C8_ValidRecordsAreEmitted ==
    (ExtractTried /\ chunk_size # 0 /\ pc \in {"done", "failed"}) =>
        \A i \in ReadableRecords :
            \E k \in 1..Len(modules) : modules[k].index = i

\* The path of record i as C9 describes it, the characters of strip being
\* stripped at both ends.
DescribedPath(i, strip) == PyStrip(Unprefixed(DecodeUtf8(RawPathOf(i))), strip)

C10_WritesConfined ==
    \A n \in 1..Len(written) :
        /\ Beneath(written[n].file)
        /\ \A m \in 1..(n - 1) : written[m].file # written[n].file

===========================================================================
